---- MODULE Spec2Model ----
(***************************************************************************)
(* The CheckBox widget of neutrino (src/src/widgets/checkbox.rs): its      *)
(* consuming builder, and its Widget implementation eval / trigger /       *)
(* on_update, driven by a runtime that delivers Events, with a Listener    *)
(* and an Observer as external collaborators.                              *)
(***************************************************************************)
EXTENDS Naturals, Sequences, FiniteSets, TLC

VARIABLES cb, phase, last, sent, calls, run, click

vars == <<cb, phase, last, sent, calls, run, click>>

(***************************************************************************)
(* Bounds and input alphabets.                                             *)
(***************************************************************************)
\* Longest logged run of matching Change events.
MaxSent == 3

\* Widget names given to new(); event sources also range over a name that
\* differs only in letter case.
Names == {"cb1", "cb2"}
Sources == Names \cup {"CB1"}
\* Change payloads.
Values == {"", "v"}
\* Labels given to the text() builder.
Texts == {"x", "Yes"}
\* Installed capabilities: None or Some(box).
None == "None"
Listeners == {"l1", "l2"}
Observers == {"o1", "o2"}
\* Keys and values of the HashMap<String, String> an Observer returns.
SnapKeys == {"text", "checked"}
SnapVals == {"Yes", "true", "false"}
Snapshots == UNION {[D -> SnapVals] : D \in SUBSET SnapKeys}
EmptySnap == [k \in {} |-> "Yes"]

(***************************************************************************)
(* Event (crate::utils::event::Event, as matched by trigger).              *)
(***************************************************************************)
Update == [type |-> "Update", source |-> "", value |-> ""]
Change(source, value) == [type |-> "Change", source |-> source, value |-> value]
\* Any variant other than Update and Change (the `_` arm of trigger).
Other == [type |-> "Other", source |-> "", value |-> ""]
NoEvent == [type |-> "None", source |-> "", value |-> ""]
Events == {Update, Other} \cup {Change(s, v) : s \in Sources, v \in Values}

(***************************************************************************)
(* The builder.                                                            *)
(***************************************************************************)
\* Variant: the default label is left empty.
new_blank_text(name) ==
    [name |-> name, checked |-> FALSE, text |-> "",
     listener |-> None, observer |-> None, stretch |-> ""]

new(name) ==
    [name |-> name, checked |-> FALSE, text |-> "CheckBox",
     listener |-> None, observer |-> None, stretch |-> ""]

checked(self, c) ==
    [name |-> self.name, checked |-> c, text |-> self.text,
     listener |-> self.listener, observer |-> self.observer,
     stretch |-> self.stretch]

\* Variant: rebuilds the widget with the default flag.
text_resets_checked(self, t) ==
    [name |-> self.name, checked |-> FALSE, text |-> t,
     listener |-> self.listener, observer |-> self.observer,
     stretch |-> self.stretch]

text(self, t) ==
    [name |-> self.name, checked |-> self.checked, text |-> t,
     listener |-> self.listener, observer |-> self.observer,
     stretch |-> self.stretch]

\* Variant: a Listener already installed is kept.
listener_keeps_first(self, l) ==
    [name |-> self.name, checked |-> self.checked, text |-> self.text,
     listener |-> IF self.listener = None THEN l ELSE self.listener,
     observer |-> self.observer,
     stretch |-> self.stretch]

listener(self, l) ==
    [name |-> self.name, checked |-> self.checked, text |-> self.text,
     listener |-> l, observer |-> self.observer,
     stretch |-> self.stretch]

observer(self, o) ==
    [name |-> self.name, checked |-> self.checked, text |-> self.text,
     listener |-> self.listener, observer |-> o,
     stretch |-> self.stretch]

stretch(self) ==
    [name |-> self.name, checked |-> self.checked, text |-> self.text,
     listener |-> self.listener, observer |-> self.observer,
     stretch |-> "stretch"]

(***************************************************************************)
(* eval: the markup, as the segments format! concatenates (the literal     *)
(* pieces of the template alternating with the five arguments).            *)
(***************************************************************************)
\* Event::change_js(source, value): the script that emits a Change.
change_js(source, value) ==
    "emit({type:'Change',source:'" \o source \o "',value:" \o value \o "})"

Template ==
    << "<div class=\"checkbox ",
       "\" onmousedown=\"",
       "\"><div class=\"checkbox-outer ",
       "\"><div class=\"checkbox-inner ",
       "\"></div></div><label>",
       "</label></div>" >>

\* format!(template, args): piece 1, arg 1, piece 2, ..., arg 5, piece 6.
format(tpl, args) ==
    [i \in 1..(Len(tpl) + Len(args)) |->
        IF i % 2 = 1 THEN tpl[(i + 1) \div 2] ELSE args[i \div 2]]

\* Variant: only the outer element gets the token.
eval_outer_only(self) ==
    LET checkedTok == IF self.checked THEN "checked" ELSE ""
    IN  format(Template,
               << self.stretch, change_js(self.name, "''"),
                  checkedTok, "", self.text >>)

eval(self) ==
    LET checkedTok == IF self.checked THEN "checked" ELSE ""
    IN  format(Template,
               << self.stretch, change_js(self.name, "''"),
                  checkedTok, checkedTok, self.text >>)

NoMarkup == << >>

(***************************************************************************)
(* on_update and trigger.  Each yields the widget after the call, the      *)
(* Listener calls and Observer queries it made, and whether it panicked.   *)
(* `hash` is what self.observer.observe() returns if it is called (only an *)
(* Update event can lead there, so the runtime's other events come with    *)
(* the empty map).                                                         *)
(***************************************************************************)
\* str::parse::<bool>(): Ok for exactly "true" and "false".
ParsesBool(s) == s \in {"true", "false"}
\* Variant: keeps whether the parse succeeded instead of the parsed value.
ParseBool_is_ok(s) == s \in {"true", "false"}
ParseBool(s) == (s = "true")

\* The result of a call that returns normally having done only `self`.
Quiet(self) ==
    [self |-> self, calls |-> << >>, observes |-> << >>, panicked |-> FALSE]

\* A call that unwinds from a panic, leaving the widget as `self`.
Panic(self) ==
    [self |-> self, calls |-> << >>,
     observes |-> << self.observer >>, panicked |-> TRUE]

\* Variant: the Observer is asked once for each field.
on_update_observes_twice(self, hash) ==
    IF self.observer = None
    THEN Quiet(self)
    ELSE IF "text" \notin DOMAIN hash
         THEN Panic(self)
         ELSE LET s1 == [self EXCEPT !.text = hash["text"]]
              IN  IF "checked" \notin DOMAIN hash \/ ~ParsesBool(hash["checked"])
                  THEN [Panic(s1) EXCEPT !.observes = << self.observer, self.observer >>]
                  ELSE [self |-> [s1 EXCEPT !.checked = ParseBool(hash["checked"])],
                        calls |-> << >>,
                        observes |-> << self.observer, self.observer >>,
                        panicked |-> FALSE]

\* Variant: the label of the snapshot is stored in the name field.
on_update_sets_name(self, hash) ==
    IF self.observer = None
    THEN Quiet(self)
    ELSE IF "text" \notin DOMAIN hash
         THEN Panic(self)
         ELSE LET s1 == [self EXCEPT !.name = hash["text"]]
              IN  IF "checked" \notin DOMAIN hash \/ ~ParsesBool(hash["checked"])
                  THEN Panic(s1)
                  ELSE [self |-> [s1 EXCEPT !.checked = ParseBool(hash["checked"])],
                        calls |-> << >>,
                        observes |-> << self.observer >>, panicked |-> FALSE]

\* Variant: the Observer is unwrapped instead of matched, so None panics.
on_update_unwraps_observer(self, hash) ==
    IF self.observer = None
    THEN [self |-> self, calls |-> << >>, observes |-> << >>, panicked |-> TRUE]
    ELSE IF "text" \notin DOMAIN hash
         THEN Panic(self)
         ELSE LET s1 == [self EXCEPT !.text = hash["text"]]
              IN  IF "checked" \notin DOMAIN hash \/ ~ParsesBool(hash["checked"])
                  THEN Panic(s1)
                  ELSE [self |-> [s1 EXCEPT !.checked = ParseBool(hash["checked"])],
                        calls |-> << >>,
                        observes |-> << self.observer >>, panicked |-> FALSE]

on_update(self, hash) ==
    IF self.observer = None
    THEN Quiet(self)
    ELSE \* hash["text"] panics on a missing key, before any assignment
         IF "text" \notin DOMAIN hash
         THEN Panic(self)
         ELSE LET s1 == [self EXCEPT !.text = hash["text"]]
              IN  \* hash["checked"] and parse().unwrap() panic after text is set
                  IF "checked" \notin DOMAIN hash \/ ~ParsesBool(hash["checked"])
                  THEN Panic(s1)
                  ELSE [self |-> [s1 EXCEPT !.checked = ParseBool(hash["checked"])],
                        calls |-> << >>,
                        observes |-> << self.observer >>, panicked |-> FALSE]

\* Variant: compares the names without regard to letter case.
Lower(s) == IF s = "CB1" THEN "cb1" ELSE s
source_matches_nocase(self, source) == Lower(source) = Lower(self.name)

\* Variant: the source is not looked at.
source_matches_any(self, source) == TRUE

\* source == &self.name
source_matches(self, source) == source = self.name

\* Variant: the flag is left as it is.
toggle_keeps(self) == self

\* Variant: sets the flag instead of flipping it.
toggle_sets(self) == [self EXCEPT !.checked = TRUE]

\* self.checked = !self.checked
toggle(self) == [self EXCEPT !.checked = ~self.checked]

\* Variant: hands the listener the widget's name instead of the payload.
notify_name(self, value) ==
    IF self.listener = None
    THEN << >>
    ELSE << [listener |-> self.listener, method |-> "on_change",
             arg |-> self.name] >>

\* match &self.listener { None => (), Some(listener) => listener.on_change(value) }
notify(self, value) ==
    IF self.listener = None
    THEN << >>
    ELSE << [listener |-> self.listener, method |-> "on_change", arg |-> value] >>

\* Variant: the Update arm is missing, so Update falls to the `_` arm.
trigger_without_update(self, event, hash) ==
    CASE event.type = "Change" ->
            IF source_matches(self, event.source)
            THEN [self |-> toggle(self), calls |-> notify(self, event.value),
                  observes |-> << >>, panicked |-> FALSE]
            ELSE Quiet(self)
      [] OTHER -> Quiet(self)

\* Variant: every variant other than Change refreshes from the Observer.
trigger_updates_on_unknown(self, event, hash) ==
    CASE event.type = "Change" ->
            IF source_matches(self, event.source)
            THEN [self |-> toggle(self), calls |-> notify(self, event.value),
                  observes |-> << >>, panicked |-> FALSE]
            ELSE Quiet(self)
      [] OTHER -> on_update(self, hash)

trigger(self, event, hash) ==
    CASE event.type = "Update" -> on_update(self, hash)
      [] event.type = "Change" ->
            IF source_matches(self, event.source)
            THEN [self |-> toggle(self), calls |-> notify(self, event.value),
                  observes |-> << >>, panicked |-> FALSE]
            ELSE Quiet(self)
      [] OTHER -> Quiet(self)

(***************************************************************************)
(* The state machine.  `last` describes the operation of the last step;    *)
(* `sent` logs the values of the Change events addressed to the widget and *)
(* `calls` the calls its Listener received.  `run` holds the value checked *)
(* was last given by the builder or by an Update / on_update(), and the    *)
(* number of Change events addressed to the widget since.  `click` is the  *)
(* example ButtonListener, which this widget never calls.                  *)
(***************************************************************************)
Step(op, event, snap, r, out) ==
    [op |-> op, event |-> event,
     snap |-> IF r.observes = << >> THEN EmptySnap ELSE snap,
     calls |-> r.calls, observes |-> r.observes,
     panicked |-> r.panicked, out |-> out, dropped |-> {}]

\* The boxes a builder call drops: those `old` held and `self` does not.
Dropped(old, self) ==
    {old.listener, old.observer} \ {self.listener, self.observer, None}

\* The ButtonListener before anything constructs or calls it.
NoClick == [pc |-> "idle"]

Init ==
    /\ \E n \in Names : cb = new(n)
    /\ phase = "build"
    /\ last = Step("new", NoEvent, EmptySnap, Quiet(cb), NoMarkup)
    /\ sent = << >>
    /\ calls = << >>
    /\ run = [base |-> cb.checked, n |-> 0]
    /\ click = NoClick

Build(op, self) ==
    /\ phase = "build"
    /\ cb' = self
    /\ last' = [Step(op, NoEvent, EmptySnap, Quiet(self), NoMarkup)
                    EXCEPT !.dropped = Dropped(cb, self)]
    /\ run' = [base |-> self.checked, n |-> 0]
    /\ UNCHANGED <<phase, sent, calls, click>>

BuildChecked == \E c \in BOOLEAN : Build("checked", checked(cb, c))
BuildText == \E t \in Texts : Build("text", text(cb, t))
BuildListener == \E l \in Listeners : Build("listener", listener(cb, l))
BuildObserver == \E o \in Observers : Build("observer", observer(cb, o))
BuildStretch == Build("stretch", stretch(cb))

\* The finished widget is put into the tree; from here on the runtime
\* drives it through the Widget trait only.
Install ==
    /\ phase = "build"
    /\ phase' = "live"
    /\ last' = Step("install", NoEvent, EmptySnap, Quiet(cb), NoMarkup)
    /\ UNCHANGED <<cb, sent, calls, run, click>>

\* Variant: rendering clears the flag it has just rendered.
Eval_clears_checked ==
    /\ phase = "live"
    /\ last' = Step("eval", NoEvent, EmptySnap, Quiet(cb), eval(cb))
    /\ cb' = [cb EXCEPT !.checked = FALSE]
    /\ UNCHANGED <<phase, sent, calls, run, click>>

Eval ==
    /\ phase = "live"
    /\ last' = Step("eval", NoEvent, EmptySnap, Quiet(cb), eval(cb))
    /\ UNCHANGED <<cb, phase, sent, calls, run, click>>

Matches(self, event) == event.type = "Change" /\ event.source = self.name

Apply(op, event, snap, r) ==
    /\ cb' = r.self
    /\ phase' = IF r.panicked THEN "panicked" ELSE "live"
    /\ last' = Step(op, event, snap, r, NoMarkup)
    /\ calls' = calls \o r.calls
    /\ sent' = IF Matches(cb, event) THEN Append(sent, event.value) ELSE sent
    /\ run' = IF op = "on_update" \/ event.type = "Update"
                 THEN [base |-> r.self.checked, n |-> 0]
              ELSE IF Matches(cb, event)
                 THEN [run EXCEPT !.n = run.n + 1]
              ELSE run
    /\ UNCHANGED click

Trigger ==
    /\ phase = "live"
    /\ \E event \in Events :
       \E snap \in (IF event.type = "Update" THEN Snapshots ELSE {EmptySnap}) :
          /\ Matches(cb, event) => Len(sent) < MaxSent
          /\ Apply("trigger", event, snap, trigger(cb, event, snap))

OnUpdate ==
    /\ phase = "live"
    /\ \E snap \in Snapshots :
          Apply("on_update", NoEvent, snap, on_update(cb, snap))

Next ==
    \/ BuildChecked
    \/ BuildText
    \/ BuildListener
    \/ BuildObserver
    \/ BuildStretch
    \/ Install
    \/ Eval
    \/ Trigger
    \/ OnUpdate

Spec == Init /\ [][Next]_vars

(***************************************************************************)
(* The example ButtonListener (src/examples/custom_mod/listeners.rs): a    *)
(* Listener that holds an Rc<RefCell<Person>> and two names, and whose     *)
(* on_click hands them to the Person through two borrow_mut() calls.       *)
(* `click` holds the listener's fields, the setter calls the Person has    *)
(* received in the current on_click (what the setters do with them is the  *)
(* Person's own code), the RefMut guards on_click holds, the borrow its    *)
(* caller or anyone else holds across the call, and on_click's position.   *)
(***************************************************************************)
FirstNames == {"Ada", "Bob", "Cy"}
LastNames == {"Byron", "Ross", "Young"}
\* What else may hold a borrow of the Person while on_click runs.
OuterBorrows == {"none", "shared", "mut"}

wvars == <<cb, phase, last, sent, calls, run>>

\* guard.set_firstname(&self.firstname) / guard.set_lastname(&self.lastname):
\* the call the Person receives through the guard.
call_set_firstname(received, firstname) ==
    Append(received, [method |-> "set_firstname", arg |-> firstname])
call_set_lastname(received, lastname) ==
    Append(received, [method |-> "set_lastname", arg |-> lastname])

\* ButtonListener::new(person, firstname, lastname)
ButtonListener_new(person, firstname, lastname) ==
    [pc |-> "ready", person |-> person,
     firstname |-> firstname, lastname |-> lastname,
     guards |-> 0, outer |-> "none"]

\* RefCell::borrow_mut succeeds only while nothing borrows the cell.
CanBorrowMut(c) == c.outer = "none" /\ c.guards = 0

ClickInit ==
    /\ cb = new("cb1")
    /\ phase = "build"
    /\ last = Step("new", NoEvent, EmptySnap, Quiet(cb), NoMarkup)
    /\ sent = << >>
    /\ calls = << >>
    /\ run = [base |-> cb.checked, n |-> 0]
    /\ \E f \in FirstNames, l \in LastNames :
          click = ButtonListener_new(<< >>, f, l)

\* on_click(&self) is entered, with `outer` borrowed elsewhere.
ClickCall ==
    /\ click.pc \in {"ready", "returned"}
    /\ \E o \in OuterBorrows :
          click' = [click EXCEPT !.pc = "first", !.outer = o, !.person = << >>]
    /\ UNCHANGED wvars

\* self.person.borrow_mut(): a RefMut guard, or a BorrowMutError panic.
borrow_mut(c, held) ==
    IF CanBorrowMut(c)
    THEN [c EXCEPT !.pc = held, !.guards = c.guards + 1]
    ELSE [c EXCEPT !.pc = "panicked"]

\* The temporary RefMut is dropped at the end of its statement.
drop_guard(c, next) == [c EXCEPT !.pc = next, !.guards = c.guards - 1]

BorrowFirst ==
    /\ click.pc = "first"
    /\ click' = borrow_mut(click, "first_held")
    /\ UNCHANGED wvars

SetFirst ==
    /\ click.pc = "first_held"
    /\ click' = [click EXCEPT !.pc = "first_set",
                              !.person = call_set_firstname(click.person, click.firstname)]
    /\ UNCHANGED wvars

\* Variant: the first guard is bound to a name and lives to the end of on_click.
ReleaseFirst_keeps_guard ==
    /\ click.pc = "first_set"
    /\ click' = [click EXCEPT !.pc = "second"]
    /\ UNCHANGED wvars

ReleaseFirst ==
    /\ click.pc = "first_set"
    /\ click' = drop_guard(click, "second")
    /\ UNCHANGED wvars

BorrowSecond ==
    /\ click.pc = "second"
    /\ click' = borrow_mut(click, "second_held")
    /\ UNCHANGED wvars

SetSecond ==
    /\ click.pc = "second_held"
    /\ click' = [click EXCEPT !.pc = "second_set",
                              !.person = call_set_lastname(click.person, click.lastname)]
    /\ UNCHANGED wvars

\* The second guard is dropped and on_click returns.
ReleaseSecond ==
    /\ click.pc = "second_set"
    /\ click' = drop_guard(click, "returned")
    /\ UNCHANGED wvars

ClickNext ==
    \/ ClickCall
    \/ BorrowFirst
    \/ SetFirst
    \/ ReleaseFirst
    \/ BorrowSecond
    \/ SetSecond
    \/ ReleaseSecond

SpecClick == ClickInit /\ [][ClickNext]_vars

(***************************************************************************)
(* Properties.                                                             *)
(***************************************************************************)
\* The step just taken was trigger(event) / on_update().
Triggered == last'.op = "trigger"
Updated == last'.op = "on_update"

\* The snapshot has both keys and a "checked" that parses.
ValidSnap(hash) == SnapKeys \subseteq DOMAIN hash /\ ParsesBool(hash["checked"])

\* C1: a trigger of Change{source: name, value: v} flips checked to its
\* negation, leaves text (and every other field) as it was, and queries no
\* Observer, whatever v is and whether or not an Observer is installed.
C1_MatchingChangeToggles ==
    [][ (Triggered /\ Matches(cb, last'.event)) =>
            /\ cb'.checked = ~cb.checked
            /\ cb'.text = cb.text
            /\ cb' = [cb EXCEPT !.checked = ~cb.checked]
            /\ last'.observes = << >>
            /\ ~last'.panicked ]_vars

\* A widget with an Observer, checked by a second matching Change (the first
\* one set the flag, the next cleared it, this one set it again).
C1_Witness ==
    /\ last.op = "trigger" /\ Matches(cb, last.event)
    /\ last.event.value = "v"
    /\ cb.observer # None
    /\ Len(sent) = 3
    /\ cb.checked

\* C2: a trigger of a Change whose source is not exactly the widget's name
\* changes no field, calls neither Listener nor Observer, and returns.
C2_OtherSourceIsNoOp ==
    [][ (Triggered /\ last'.event.type = "Change"
                   /\ last'.event.source # cb.name) =>
            /\ cb' = cb
            /\ last'.calls = << >> /\ last'.observes = << >>
            /\ calls' = calls
            /\ phase' = phase ]_vars

\* A checked widget named cb1 with a Listener, after Change{source: "CB1"}.
C2_Witness ==
    /\ last.op = "trigger" /\ last.event = Change("CB1", "v")
    /\ cb.name = "cb1" /\ cb.checked /\ cb.listener # None
    /\ phase = "live"

\* C3: on_update() with an Observer whose snapshot has a "text" and a
\* parseable "checked" sets text and checked to the snapshot's values and
\* nothing else; without an Observer it changes nothing.
C3_OnUpdateTakesSnapshot ==
    [][ Updated =>
          IF cb.observer = None
          THEN cb' = cb /\ last'.observes = << >> /\ ~last'.panicked
          ELSE /\ last'.observes = << cb.observer >>
               /\ ValidSnap(last'.snap) =>
                    /\ cb'.text = last'.snap["text"]
                    /\ cb'.checked = (last'.snap["checked"] = "true")
                    /\ cb' = [cb EXCEPT !.text = cb'.text,
                                        !.checked = cb'.checked]
                    /\ ~last'.panicked ]_vars

\* After matching Changes had been delivered, on_update() took {"text":
\* "Yes", "checked": "false"} from the Observer.
C3_Witness ==
    /\ last.op = "on_update" /\ cb.observer # None
    /\ last.snap = [text |-> "Yes", checked |-> "false"]
    /\ cb.text = "Yes" /\ ~cb.checked
    /\ Len(sent) = 1

\* C4 (as claimed): when the snapshot lacks "text" or "checked", or its
\* "checked" does not parse, on_update() returns to its caller with the
\* failure; it does not panic.
C4_BadSnapshotIsRecoverable ==
    (last.op = "on_update" /\ last.observes # << >> /\ ~ValidSnap(last.snap))
        => (~last.panicked /\ phase = "live")

\* C5 (as claimed): an on_update() that fails on bad Observer data leaves
\* every field, text included, as it was before the call.
C5_FailedUpdateKeepsState ==
    [][ (Updated /\ last'.panicked) => cb' = cb ]_vars

\* The Listener calls that `values`, delivered in order, must produce.
Expected(self, values) ==
    [i \in 1..Len(values) |->
        [listener |-> self.listener, method |-> "on_change", arg |-> values[i]]]

\* C6: the calls the Listener has received are exactly one on_change per
\* Change event whose source is the widget's name, in order and with that
\* event's value; no other event adds a call, and without a Listener there
\* are none.
C6_OnChangeOncePerMatchingChange ==
    calls = IF cb.listener = None THEN << >> ELSE Expected(cb, sent)

\* Two matching Changes with different values went to a widget with a
\* Listener, and then a Change for another widget.
C6_Witness ==
    /\ cb.listener # None
    /\ Len(sent) = 2 /\ sent[1] # sent[2]
    /\ Len(calls) = 2
    /\ last.op = "trigger" /\ last.event.type = "Change"
    /\ last.event.source # cb.name

\* C7: a trigger of Update does what on_update() does on the same widget and
\* the same Observer answer: same fields afterwards (checked is not toggled),
\* same Observer query, same outcome, no Listener call.
C7_UpdateDelegates ==
    [][ (Triggered /\ last'.event = Update) =>
          LET r == on_update(cb, last'.snap)
          IN  /\ cb' = r.self
              /\ last'.observes = r.observes
              /\ last'.panicked = r.panicked
              /\ last'.calls = << >> /\ calls' = calls ]_vars

\* Update reached a checked widget with an Observer and a Listener, and the
\* snapshot kept it checked.
C7_Witness ==
    /\ last.op = "trigger" /\ last.event = Update
    /\ last.observes # << >> /\ ~last.panicked
    /\ cb.listener # None
    /\ cb.checked /\ cb.text = "Yes"

\* One builder call: the setter and its argument.
SetterCalls ==
    ({"checked"} \X BOOLEAN) \cup ({"text"} \X Texts)
        \cup ({"listener"} \X Listeners) \cup ({"observer"} \X Observers)
        \cup {<<"stretch", "stretch">>}

Set(self, call) ==
    CASE call[1] = "checked" -> checked(self, call[2])
      [] call[1] = "text" -> text(self, call[2])
      [] call[1] = "listener" -> listener(self, call[2])
      [] call[1] = "observer" -> observer(self, call[2])
      [] call[1] = "stretch" -> stretch(self)

\* C8: on every configuration the builder can reach, checked(b) and text(t)
\* give the same widget in either order; so do any two setters of different
\* fields, and each setter sets its own field to its argument and keeps the
\* others.
C8_BuilderOrderIndependent ==
    phase = "build" =>
        /\ \A b \in BOOLEAN, t \in Texts :
              checked(text(cb, t), b) = text(checked(cb, b), t)
        /\ \A c1 \in SetterCalls, c2 \in SetterCalls :
              c1[1] # c2[1] => Set(Set(cb, c1), c2) = Set(Set(cb, c2), c1)
        /\ \A c \in SetterCalls :
              Set(cb, c) = [cb EXCEPT ![c[1]] = c[2]]

\* new("cb1").checked(true).text("x"), still in the builder.
C8_Witness ==
    /\ phase = "build" /\ last.op = "text"
    /\ cb = [new("cb1") EXCEPT !.checked = TRUE, !.text = "x"]

\* C9: eval() changes no field; two eval() calls in a row return the same
\* markup; and the markup depends on name, checked, text and stretch only.
C9_EvalPure ==
    /\ [][ last'.op = "eval" =>
              /\ cb' = cb
              /\ last.op = "eval" => last'.out = last.out ]_vars
    /\ [](\A l \in Listeners \cup {None}, o \in Observers \cup {None} :
              eval([cb EXCEPT !.listener = l, !.observer = o]) = eval(cb))

\* A checked widget with Listener and Observer has just been rendered.
C9_Witness ==
    /\ last.op = "eval" /\ last.out = eval(cb)
    /\ cb.checked /\ cb.listener # None /\ cb.observer # None

\* The class arguments of the checkbox-outer and checkbox-inner elements:
\* the segments that follow the template pieces opening those attributes.
OuterClass(markup) == markup[6]
InnerClass(markup) == markup[8]
CheckedOnBoth(markup) ==
    OuterClass(markup) = "checked" /\ InnerClass(markup) = "checked"
CheckedOnNeither(markup) ==
    OuterClass(markup) # "checked" /\ InnerClass(markup) # "checked"

\* C10: in every state the markup of the widget has the checked token on
\* both inner elements if checked is true and on neither if it is false, and
\* so has the markup an eval() step returned.
C10_CheckedTokenIffChecked ==
    /\ IF cb.checked THEN CheckedOnBoth(eval(cb)) ELSE CheckedOnNeither(eval(cb))
    /\ last.op = "eval" =>
          IF cb.checked THEN CheckedOnBoth(last.out)
                        ELSE CheckedOnNeither(last.out)

\* new(n), one matching Change{value: ""}, then the render carrying the
\* token on both elements.
C10_Witness ==
    /\ last.op = "eval" /\ CheckedOnBoth(last.out)
    /\ sent = << "" >>
    /\ cb = [new(cb.name) EXCEPT !.checked = TRUE]

\* The step just taken was on_update(), called directly or for an Update.
Refreshed == Updated \/ (Triggered /\ last'.event = Update)

\* C11: once the widget is installed, no eval(), trigger() (of Update, of a
\* Change for this or another widget, of any other variant) or on_update()
\* changes name or stretch, whether it returns or not.
C11_NameAndStretchFixed ==
    [][ phase = "live" => (cb'.name = cb.name /\ cb'.stretch = cb.stretch) ]_vars

\* A widget built as cb2 with stretch() whose label and flag an on_update()
\* has replaced after a matching Change.
C11_Witness ==
    /\ last.op = "on_update" /\ last.observes # << >> /\ ~last.panicked
    /\ cb.name = "cb2" /\ cb.stretch = "stretch"
    /\ cb.text = "true" /\ sent # << >>

\* C12: without a Listener, a trigger of a matching Change flips checked,
\* calls nothing and returns; without an Observer, a trigger of Update and
\* on_update() change nothing, query nothing and return.
C12_AbsentCapabilityIsNoError ==
    [][ /\ (Triggered /\ Matches(cb, last'.event) /\ cb.listener = None) =>
              /\ cb' = [cb EXCEPT !.checked = ~cb.checked]
              /\ last'.calls = << >> /\ calls' = calls
              /\ ~last'.panicked /\ phase' = "live"
        /\ (Refreshed /\ cb.observer = None) =>
              /\ cb' = cb
              /\ last'.observes = << >>
              /\ ~last'.panicked /\ phase' = "live" ]_vars

\* A widget with neither capability was checked by a matching Change and
\* has then been through an Update.
C12_Witness ==
    /\ cb.listener = None /\ cb.observer = None
    /\ last.op = "trigger" /\ last.event = Update
    /\ Len(sent) = 1 /\ cb.checked /\ calls = << >>
    /\ phase = "live"

\* C13: new(n) has name n, checked false, text "CheckBox", no Listener, no
\* Observer and an empty stretch; stretch is "" until a stretch() call, the
\* only step that changes it, makes it "stretch".
C13_NewDefaults ==
    /\ [](/\ \A n \in Names :
                new(n) = [name |-> n, checked |-> FALSE, text |-> "CheckBox",
                          listener |-> None, observer |-> None, stretch |-> ""]
          /\ last.op = "new" =>
                /\ cb.name \in Names
                /\ cb = [name |-> cb.name, checked |-> FALSE, text |-> "CheckBox",
                         listener |-> None, observer |-> None, stretch |-> ""]
          /\ cb.stretch \in {"", "stretch"})
    /\ [][ /\ last'.op = "stretch" => cb'.stretch = "stretch"
           /\ cb'.stretch # cb.stretch => last'.op = "stretch" ]_vars

\* new("cb2").stretch(): every other field still at its default.
C13_Witness ==
    /\ phase = "build" /\ last.op = "stretch"
    /\ cb = [name |-> "cb2", checked |-> FALSE, text |-> "CheckBox",
             listener |-> None, observer |-> None, stretch |-> "stretch"]

\* C14: a trigger of a variant other than Update and Change changes no
\* field, calls neither the Listener nor the Observer, and returns.
C14_UnknownVariantInert ==
    [][ (Triggered /\ last'.event = Other) =>
            /\ cb' = cb
            /\ last'.calls = << >> /\ calls' = calls
            /\ last'.observes = << >>
            /\ ~last'.panicked /\ phase' = phase ]_vars

\* Such an event reached a checked widget that has both capabilities.
C14_Witness ==
    /\ last.op = "trigger" /\ last.event = Other
    /\ cb.listener # None /\ cb.observer # None
    /\ cb.checked /\ sent # << >>
    /\ phase = "live"

\* C15: on an installed widget checked changes only in a trigger of a Change
\* whose source is the name or in an Update / on_update() with an Observer;
\* text changes only in an Update / on_update() with an Observer; a trigger
\* of a Change never changes text.
C15_OnlyTriggerAndUpdateMutate ==
    [][ phase = "live" =>
          /\ cb'.checked # cb.checked =>
                \/ Triggered /\ Matches(cb, last'.event)
                \/ Refreshed /\ cb.observer # None
          /\ cb'.text # cb.text => (Refreshed /\ cb.observer # None)
          /\ (Triggered /\ last'.event.type = "Change") => cb'.text = cb.text
      ]_vars

\* An Update gave the widget the label "false" and unchecked it after a
\* matching Change had checked it.
C15_Witness ==
    /\ last.op = "trigger" /\ last.event = Update
    /\ last.snap = [text |-> "false", checked |-> "false"]
    /\ cb.text = "false" /\ ~cb.checked
    /\ Len(sent) = 1 /\ run.n = 0

\* C16 (as claimed): when a Change addressed to the widget toggles it and a
\* Listener is installed, trigger calls that Listener's on_click().
C16_ToggleCallsOnClick ==
    (last.op = "trigger" /\ Matches(cb, last.event) /\ cb.listener # None)
        => \E i \in DOMAIN last.calls : last.calls[i].method = "on_click"

\* C17: checked is the value the builder or the last Update / on_update()
\* left, if the Change events addressed to the widget since are even in
\* number, and its negation if they are odd, whatever other Changes and
\* unknown events came in between; a Listener got one call for each of them.
C17_ToggleParity ==
    /\ cb.checked = (IF run.n % 2 = 0 THEN run.base ELSE ~run.base)
    /\ run.n <= Len(sent)
    /\ cb.listener # None => Len(calls) = Len(sent)

\* Two matching Changes, then a Change for another widget: checked is back
\* at its value and the Listener was called twice.
C17_Witness ==
    /\ run.n = 2 /\ run.base /\ cb.checked
    /\ Len(calls) = 2
    /\ last.op = "trigger" /\ last.event.type = "Change"
    /\ last.event.source # cb.name

\* C18: an Update or on_update() queries the Observer exactly once if one is
\* installed and not at all otherwise, and calls no Listener, whatever the
\* snapshot does to checked; a trigger of a Change queries no Observer.
C18_CallbackSeparation ==
    [][ /\ Refreshed =>
              /\ last'.observes =
                    (IF cb.observer = None THEN << >> ELSE << cb.observer >>)
              /\ last'.calls = << >> /\ calls' = calls
        /\ (Triggered /\ last'.event.type = "Change") => last'.observes = << >>
      ]_vars

\* An Update checked a widget that has a Listener, an Observer and no
\* matching Change so far.
C18_Witness ==
    /\ last.op = "trigger" /\ last.event = Update
    /\ last.observes = << cb.observer >> /\ cb.observer # None
    /\ last.snap = [text |-> "Yes", checked |-> "true"] /\ cb.checked
    /\ cb.listener # None /\ calls = << >> /\ sent = << >>

\* C19: the widget holds None or one Listener and None or one Observer; a
\* listener(...) or observer(...) call installs its argument and drops the
\* box installed before; every Listener call goes to the Listener the widget
\* holds and every query to the Observer it holds, at most one per step.
C19_OneCapabilityLastWins ==
    /\ [](/\ cb.listener \in Listeners \cup {None}
          /\ cb.observer \in Observers \cup {None}
          /\ phase = "build" =>
                /\ \A l1 \in Listeners, l2 \in Listeners :
                      listener(listener(cb, l1), l2) = listener(cb, l2)
                /\ \A o1 \in Observers, o2 \in Observers :
                      observer(observer(cb, o1), o2) = observer(cb, o2)
          /\ \A i \in DOMAIN calls : calls[i].listener = cb.listener
          /\ Len(last.calls) <= 1 /\ Len(last.observes) <= 1
          /\ \A i \in DOMAIN last.observes : last.observes[i] = cb.observer)
    /\ [][ /\ last'.op = "listener" =>
                /\ cb'.listener \in Listeners
                /\ last'.dropped = {cb.listener} \ {None, cb'.listener}
           /\ last'.op = "observer" =>
                /\ cb'.observer \in Observers
                /\ last'.dropped = {cb.observer} \ {None, cb'.observer} ]_vars

\* listener(l2) on a widget that held l1: l1 is dropped and l2 installed.
C19_Witness ==
    /\ phase = "build" /\ last.op = "listener"
    /\ last.dropped = {"l1"} /\ cb.listener = "l2"
    /\ cb.observer # None

\* ButtonListener::on_click holds at most one RefMut of the Person at a time
\* and none when it takes the second; it panics only if the Person is
\* borrowed elsewhere during the call; and when it returns it has called
\* set_firstname and then set_lastname, once each, with the names the
\* listener was constructed with.  (What the two setters store is decided by
\* Person, whose code is not part of this model.)
OnClickBorrowsInTurn ==
    /\ click.guards <= 1
    /\ click.pc \in {"first", "second", "returned"} => click.guards = 0
    /\ click.pc = "panicked" => click.outer # "none"
    /\ click.pc = "returned" =>
          /\ click.outer = "none"
          /\ click.person =
                << [method |-> "set_firstname", arg |-> click.firstname],
                   [method |-> "set_lastname", arg |-> click.lastname] >>

\* on_click has returned after handing Bob and Ross to the Person.
OnClickReturned ==
    /\ click.pc = "returned" /\ click.outer = "none" /\ click.guards = 0
    /\ click.firstname = "Bob" /\ click.lastname = "Ross"
    /\ Len(click.person) = 2

====
